---- MODULE Spec2Model ----
(***************************************************************************)
(* Upload-lifecycle tracker of the chat upload API.                        *)
(*                                                                         *)
(* The store (models/database.py), the processing service with its         *)
(* background job (services/processing_service.py), the upload service     *)
(* (services/upload_service.py) and the upload endpoint with its           *)
(* validation gate (main.py).                                              *)
(*                                                                         *)
(* Scheduling: everything runs on one asyncio event loop.  The store's     *)
(* coroutines never suspend, so a request handler runs atomically, and a   *)
(* background job runs atomically between its suspension points, which     *)
(* are the start of the task and the three asyncio.sleep(1) calls.         *)
(***************************************************************************)
EXTENDS Integers, Sequences, FiniteSets, TLC

\* ------------------------------------------------------------------ bounds
MaxUploads == 2      \* uploads created in one behaviour
MaxJobs == 2         \* background tasks launched in one behaviour
MaxClock == 2        \* readings of datetime.utcnow() range over 1..MaxClock

\* ------------------------------------------------------------ the inputs
\* Optional[...] fields that are unset; timestamps are 1..MaxClock
None == 0

Customers == {"acme", "globex"}

\* UploadStatus
PENDING == "pending"
PROCESSING == "processing"
COMPLETED == "completed"
FAILED == "failed"
UploadStatus == {PENDING, PROCESSING, COMPLETED, FAILED}

\* File contents, by what the parsers make of them:
\*   utf8    content.decode('utf-8') succeeds
\*   json    what json.loads gives: "error", "scalar", "object", "array"
\*   senders for an array: whether every 'sender' value is hashable
\*   csv     whether the csv reader accepts the text
\*   len     len(content)
Contents ==
    { [name |-> "senders.json", utf8 |-> TRUE, json |-> "array", senders |-> TRUE, csv |-> TRUE, len |-> 3],
      [name |-> "listsender.json", utf8 |-> TRUE, json |-> "array", senders |-> FALSE, csv |-> TRUE, len |-> 2],
      [name |-> "number.json", utf8 |-> TRUE, json |-> "scalar", senders |-> TRUE, csv |-> TRUE, len |-> 1],
      [name |-> "table.csv", utf8 |-> TRUE, json |-> "error", senders |-> TRUE, csv |-> TRUE, len |-> 2] }

\* get_file_content's None, and the locals of a task that has not run yet
NoContent == [name |-> "", utf8 |-> FALSE, json |-> "error", senders |-> FALSE, csv |-> FALSE, len |-> 0]

ContentNamed(n) == CHOOSE c \in Contents : c.name = n

\* The files submitted: a filename, as the sequence of its '.'-separated parts,
\* with its content.
Files ==
    { [filename |-> <<"chat", "json">>, content |-> ContentNamed("senders.json")],
      [filename |-> <<"chat", "json">>, content |-> ContentNamed("listsender.json")],
      [filename |-> <<"chat", "json">>, content |-> ContentNamed("number.json")],
      [filename |-> <<"chat", "csv">>, content |-> ContentNamed("table.csv")],
      [filename |-> <<"chat", "txt">>, content |-> ContentNamed("table.csv")] }

VARIABLES
    uploads,              \* db.uploads: id -> Upload
    file_contents,        \* db.file_contents: id -> bytes
    processing_results,   \* db.processing_results: id -> list of ProcessingResult
    tasks,                \* the tasks made by asyncio.create_task, in order
    next_id,              \* the next fresh uuid
    now,                  \* datetime.utcnow()
    response,             \* outcome of the last request served
    written               \* id -> the (status, progress) values written to a stored upload

vars == <<uploads, file_contents, processing_results, tasks, next_id, now, response, written>>

\* ------------------------------------------------------------- helpers
\* str.lower() on the suffixes that occur
lower(s) ==
    CASE s = "JSON" -> "json"
      [] s = "CSV" -> "csv"
      [] s = "TXT" -> "txt"
      [] OTHER -> s

\* filename.split('.')[-1].lower()
file_type_of(filename) == lower(filename[Len(filename)])

\* filename.endswith(('.json', '.csv')): case-sensitive
has_allowed_suffix(filename) ==
    Len(filename) >= 2 /\ filename[Len(filename)] \in {"json", "csv"}

\* the entries of a dict without key k (del d[k], d.pop(k, None))
without(d, k) == [i \in DOMAIN d \ {k} |-> d[i]]

\* d[k] = v
with(d, k, v) == [i \in DOMAIN d \cup {k} |-> IF i = k THEN v ELSE d[i]]

\* -------------------------------------------------------------- the store
\* InMemoryDatabase.create_upload: the Upload it builds
new_upload(id, customer_id, filename, file_size, t) ==
    [id |-> id,
     customer_id |-> customer_id,
     filename |-> filename,
     file_type |-> file_type_of(filename),
     file_size |-> file_size,
     upload_timestamp |-> t,
     status |-> PENDING,
     progress |-> 0,
     processing_started_at |-> None,
     processing_completed_at |-> None]

\* the upload that is not there
NotFound == [id |-> None]

\* get_upload without the customer check
get_upload_any_customer(ups, upload_id, customer_id) ==
    IF upload_id \in DOMAIN ups THEN ups[upload_id] ELSE NotFound

\* InMemoryDatabase.get_upload
get_upload(ups, upload_id, customer_id) ==
    IF upload_id \in DOMAIN ups /\ ups[upload_id].customer_id = customer_id
    THEN ups[upload_id]
    ELSE NotFound

\* update_upload_status without line 44: the progress argument is dropped
updated_keeps_progress(u, status, progress, t) ==
    LET u1 == [u EXCEPT !.status = status] IN
    IF status = PROCESSING /\ u1.processing_started_at = None
    THEN [u1 EXCEPT !.processing_started_at = t]
    ELSE IF status = COMPLETED
    THEN [u1 EXCEPT !.processing_completed_at = t, !.progress = 100]
    ELSE u1

\* update_upload_status with line 46 testing the status alone
updated_restarts(u, status, progress, t) ==
    LET u1 == [u EXCEPT !.status = status, !.progress = progress] IN
    IF status = PROCESSING
    THEN [u1 EXCEPT !.processing_started_at = t]
    ELSE IF status = COMPLETED
    THEN [u1 EXCEPT !.processing_completed_at = t, !.progress = 100]
    ELSE u1

\* update_upload_status with line 46 testing that the start is already set
updated_never_starts(u, status, progress, t) ==
    LET u1 == [u EXCEPT !.status = status, !.progress = progress] IN
    IF status = PROCESSING /\ u1.processing_started_at # None
    THEN [u1 EXCEPT !.processing_started_at = t]
    ELSE IF status = COMPLETED
    THEN [u1 EXCEPT !.processing_completed_at = t, !.progress = 100]
    ELSE u1

\* InMemoryDatabase.update_upload_status: the Upload after the update
updated(u, status, progress, t) ==
    LET u1 == [u EXCEPT !.status = status, !.progress = progress] IN
    IF status = PROCESSING /\ u1.processing_started_at = None
    THEN [u1 EXCEPT !.processing_started_at = t]
    ELSE IF status = COMPLETED
    THEN [u1 EXCEPT !.processing_completed_at = t, !.progress = 100]
    ELSE u1

\* update_upload_status that writes to every stored upload
update_upload_status_all(ups, upload_id, status, progress, t) ==
    [id \in DOMAIN ups |-> updated(ups[id], status, progress, t)]

\* InMemoryDatabase.update_upload_status: the uploads after the update
update_upload_status(ups, upload_id, status, progress, t) ==
    IF upload_id \in DOMAIN ups
    THEN [ups EXCEPT ![upload_id] = updated(ups[upload_id], status, progress, t)]
    ELSE ups

\* the (status, progress) log after an update_upload_status call
log_write(w, ups, upload_id) ==
    IF upload_id \in DOMAIN ups
    THEN [w EXCEPT ![upload_id] = Append(@, <<ups[upload_id].status, ups[upload_id].progress>>)]
    ELSE w

\* InMemoryDatabase.save_processing_results
save_processing_results(res, upload_id, results) == with(res, upload_id, results)

\* InMemoryDatabase.get_processing_results
get_processing_results(res, upload_id) ==
    IF upload_id \in DOMAIN res THEN res[upload_id] ELSE <<>>

\* InMemoryDatabase.get_file_content
get_file_content(fc, upload_id) ==
    IF upload_id \in DOMAIN fc THEN fc[upload_id] ELSE NoContent

\* delete_upload without the ownership check
delete_found_unchecked(ups, upload_id, customer_id) == upload_id \in DOMAIN ups

\* InMemoryDatabase.delete_upload: whether it deletes
delete_found(ups, upload_id, customer_id) ==
    get_upload(ups, upload_id, customer_id) # NotFound

\* self.uploads.values(): the uploads in insertion order, which is the order of
\* their ids (ids are handed out in increasing order and never used again);
\* values_between lists those with an id in lo..hi
RECURSIVE values_between(_, _, _)
values_between(ups, lo, hi) ==
    IF lo > hi THEN <<>>
    ELSE IF lo = hi THEN (IF lo \in DOMAIN ups THEN <<ups[lo]>> ELSE <<>>)
    ELSE LET mid == (lo + hi) \div 2
         IN values_between(ups, lo, mid) \o values_between(ups, mid + 1, hi)

values_of(ups, ids) ==
    IF ids = {} THEN <<>>
    ELSE LET last == CHOOSE i \in ids : \A k \in ids : k <= i
         IN values_between([id \in ids |-> ups[id]], 1, last)

\* list.sort(key=upload_timestamp, reverse=True): stable, equal keys keep their
\* order; sorted_between sorts a list whose timestamps lie in lo..hi
RECURSIVE sorted_between(_, _, _)
sorted_between(seq, lo, hi) ==
    IF seq = <<>> \/ lo >= hi THEN seq
    ELSE LET mid == (lo + hi) \div 2
             newer(u) == u.upload_timestamp > mid
             older(u) == u.upload_timestamp <= mid
         IN sorted_between(SelectSeq(seq, newer), mid + 1, hi)
                \o sorted_between(SelectSeq(seq, older), lo, mid)

sorted_newest_first(seq) ==
    LET stamps == {seq[i].upload_timestamp : i \in DOMAIN seq} IN
    IF seq = <<>> THEN <<>>
    ELSE sorted_between(seq,
             CHOOSE t \in stamps : \A k \in stamps : t <= k,
             CHOOSE t \in stamps : \A k \in stamps : k <= t)

\* a slice bound as Python clamps it
slice_index(i, n) ==
    IF i < 0 THEN (IF i + n < 0 THEN 0 ELSE i + n)
    ELSE (IF i > n THEN n ELSE i)

\* seq[a:b]
slice(seq, a, b) ==
    SubSeq(seq, slice_index(a, Len(seq)) + 1, slice_index(b, Len(seq)))

\* InMemoryDatabase.list_uploads; status "" is the absent filter
list_uploads(ups, customer_id, skip, limit, status) ==
    LET of_customer(u) == u.customer_id = customer_id
        with_status(u) == u.status = status
        customer_uploads == SelectSeq(values_of(ups, DOMAIN ups), of_customer)
        selected == IF status # "" THEN SelectSeq(customer_uploads, with_status)
                    ELSE customer_uploads
    IN slice(sorted_newest_first(selected), skip, skip + limit)

\* sum(u.file_size for u in uploads)
RECURSIVE sum_file_size(_)
sum_file_size(seq) ==
    IF seq = <<>> THEN 0
    ELSE IF Len(seq) = 1 THEN seq[1].file_size
    ELSE LET half == Len(seq) \div 2
         IN sum_file_size(SubSeq(seq, 1, half)) + sum_file_size(SubSeq(seq, half + 1, Len(seq)))

\* the limit get_customer_summary lists with
summary_limit == 1000

\* UploadService.get_customer_summary (uploads_today compares calendar days,
\* which the clock of the model does not have: it is left out)
get_customer_summary(ups, customer_id) ==
    LET listed == list_uploads(ups, customer_id, 0, summary_limit, "")
        pending(u) == u.status = PENDING
        completed(u) == u.status = COMPLETED
        is_failed(u) == u.status = FAILED
    IN [total_uploads |-> Len(listed),
        pending_uploads |-> Len(SelectSeq(listed, pending)),
        completed_uploads |-> Len(SelectSeq(listed, completed)),
        failed_uploads |-> Len(SelectSeq(listed, is_failed)),
        total_files_size |-> sum_file_size(listed)]

\* ------------------------------------------------------------ the analyzers
\* ProcessingService._process_json_file: whether it returns
json_file_ok(content) ==
    /\ content.utf8
    /\ content.json # "error"
    /\ content.json = "array" => content.senders

\* ProcessingService._process_csv_file: whether it returns
csv_file_ok(content) == content.utf8 /\ content.csv

\* the dispatch without its else branch: an unknown type is read as csv
analysis_ok_any_type(file_type, content) ==
    CASE file_type = "json" -> json_file_ok(content)
      [] OTHER -> csv_file_ok(content)

\* an analysis that returns only while the clock stands at its first value
analysis_ok_by_the_clock(file_type, content) ==
    /\ now = 1
    /\ \/ file_type = "json" /\ json_file_ok(content)
       \/ file_type = "csv" /\ csv_file_ok(content)

\* ProcessingService._process_file, lines 47-53: whether the analysis returns
analysis_ok(file_type, content) ==
    CASE file_type = "json" -> json_file_ok(content)
      [] file_type = "csv" -> csv_file_ok(content)
      [] OTHER -> FALSE

\* the results of the analysis (the payloads are mock data, left out)
analysis_results(file_type, t) ==
    IF file_type = "json"
    THEN <<[result_type |-> "message_analysis", created_at |-> t],
           [result_type |-> "sentiment_analysis", created_at |-> t]>>
    ELSE <<[result_type |-> "csv_analysis", created_at |-> t],
           [result_type |-> "conversation_metrics", created_at |-> t]>>

\* ------------------------------------------------------ the validation gate
\* main._validate_chat_file: whether it returns without raising
validate_chat_file(content, filename) ==
    LET suffix == filename[Len(filename)] IN
    CASE Len(filename) >= 2 /\ suffix = "json" ->
             content.utf8 /\ content.json \in {"object", "array"}
      [] Len(filename) >= 2 /\ suffix = "csv" ->
             content.utf8 /\ content.csv
      [] OTHER -> TRUE

\* settings.max_file_size
max_file_size == 52428800

\* a file over the size limit, and one with an upper-case extension
LargeContent ==
    [name |-> "large.json", utf8 |-> TRUE, json |-> "array", senders |-> TRUE, csv |-> TRUE,
     len |-> max_file_size + 1]

\* the files submitted to the endpoint
SubmittedFiles ==
    Files \cup { [filename |-> <<"chat", "json">>, content |-> LargeContent],
                 [filename |-> <<"chat", "JSON">>, content |-> ContentNamed("senders.json")] }

\* the gate without the format validation
file_accepted_unvalidated(file) ==
    /\ has_allowed_suffix(file.filename)
    /\ ~(file.content.len > max_file_size)

\* main.upload_files, lines 58-73: whether the file passes
file_accepted(file) ==
    /\ has_allowed_suffix(file.filename)
    /\ ~(file.content.len > max_file_size)
    /\ validate_chat_file(file.content, file.filename)

\* ------------------------------------------------------------- the state
Ids == 1..MaxUploads

NoResponse == [op |-> "", upload_id |-> None, ok |-> FALSE]

Init ==
    /\ uploads = <<>>
    /\ file_contents = <<>>
    /\ processing_results = <<>>
    /\ tasks = <<>>
    /\ next_id = 1
    /\ now = 1
    /\ response = NoResponse
    /\ written = <<>>

\* time passes: datetime.utcnow() reads the wall clock, which moves on between
\* any two steps; asyncio.sleep runs on the loop's own clock
Tick ==
    /\ now < MaxClock
    /\ now' = now + 1
    /\ UNCHANGED <<uploads, file_contents, processing_results, tasks, next_id, response, written>>

\* --------------------------------------------------------- the requests
\* asyncio.create_task(self._process_file(upload_id)): the task, not yet run
new_task(upload_id) ==
    [upload_id |-> upload_id, pc |-> "created", file_type |-> "", file_content |-> NoContent]

\* ProcessingService.trigger_processing: whether it launches a task
trigger_found(ups, upload_id, customer_id) ==
    get_upload(ups, upload_id, customer_id) # NotFound

\* UploadService.create_upload: the store's create_upload, then the auto-trigger
create_upload(customer_id, file) ==
    LET id == next_id
        ups == with(uploads, id,
                    new_upload(id, customer_id, file.filename, file.content.len, now))
    IN
    /\ next_id <= MaxUploads
    /\ Len(tasks) < MaxJobs
    /\ uploads' = ups
    /\ file_contents' = with(file_contents, id, file.content)
    /\ written' = with(written, id, <<<<PENDING, 0>>>>)
    /\ next_id' = next_id + 1
    /\ tasks' = IF trigger_found(ups, id, customer_id)
                 THEN Append(tasks, new_task(id)) ELSE tasks
    /\ response' = [op |-> "create", upload_id |-> id, ok |-> TRUE]
    /\ UNCHANGED <<processing_results, now>>

\* main.upload_files, for one submitted file
upload_files(customer_id, file) ==
    IF file_accepted(file)
    THEN create_upload(customer_id, file)
    ELSE /\ response' = [op |-> "upload", upload_id |-> None, ok |-> FALSE]
         /\ UNCHANGED <<uploads, file_contents, processing_results, tasks, next_id, now, written>>

\* trigger_processing with the task started eagerly: it runs to its first sleep
\* before the call returns
trigger_processing_eager(upload_id, customer_id) ==
    LET ups == update_upload_status(uploads, upload_id, PROCESSING, 0, now) IN
    IF trigger_found(uploads, upload_id, customer_id)
    THEN /\ Len(tasks) < MaxJobs
         /\ uploads' = ups
         /\ written' = log_write(written, ups, upload_id)
         /\ tasks' = Append(tasks,
                [upload_id |-> upload_id, pc |-> "sleep25",
                 file_type |-> ups[upload_id].file_type,
                 file_content |-> get_file_content(file_contents, upload_id)])
         /\ response' = [op |-> "trigger", upload_id |-> upload_id, ok |-> TRUE]
         /\ UNCHANGED <<file_contents, processing_results, next_id, now>>
    ELSE /\ response' = [op |-> "trigger", upload_id |-> upload_id, ok |-> FALSE]
         /\ UNCHANGED <<uploads, file_contents, processing_results, tasks, next_id, now, written>>

\* ProcessingService.trigger_processing
trigger_processing(upload_id, customer_id) ==
    IF trigger_found(uploads, upload_id, customer_id)
    THEN /\ Len(tasks) < MaxJobs
         /\ tasks' = Append(tasks, new_task(upload_id))
         /\ response' = [op |-> "trigger", upload_id |-> upload_id, ok |-> TRUE]
         /\ UNCHANGED <<uploads, file_contents, processing_results, next_id, now, written>>
    ELSE /\ response' = [op |-> "trigger", upload_id |-> upload_id, ok |-> FALSE]
         /\ UNCHANGED <<uploads, file_contents, processing_results, tasks, next_id, now, written>>

\* delete_upload that leaves the content behind
delete_upload_keeps_content(upload_id, customer_id) ==
    IF delete_found(uploads, upload_id, customer_id)
    THEN /\ uploads' = without(uploads, upload_id)
         /\ processing_results' = without(processing_results, upload_id)
         /\ written' = without(written, upload_id)
         /\ response' = [op |-> "delete", upload_id |-> upload_id, ok |-> TRUE]
         /\ UNCHANGED <<file_contents, tasks, next_id, now>>
    ELSE /\ response' = [op |-> "delete", upload_id |-> upload_id, ok |-> FALSE]
         /\ UNCHANGED <<uploads, file_contents, processing_results, tasks, next_id, now, written>>

\* UploadService.delete_upload, InMemoryDatabase.delete_upload
delete_upload(upload_id, customer_id) ==
    IF delete_found(uploads, upload_id, customer_id)
    THEN /\ uploads' = without(uploads, upload_id)
         /\ file_contents' = without(file_contents, upload_id)
         /\ processing_results' = without(processing_results, upload_id)
         /\ written' = without(written, upload_id)
         /\ response' = [op |-> "delete", upload_id |-> upload_id, ok |-> TRUE]
         /\ UNCHANGED <<tasks, next_id, now>>
    ELSE /\ response' = [op |-> "delete", upload_id |-> upload_id, ok |-> FALSE]
         /\ UNCHANGED <<uploads, file_contents, processing_results, tasks, next_id, now, written>>

\* ------------------------------------------------- the background job
\* The store as a job step sees and leaves it.
TheStore == [uploads |-> uploads, results |-> processing_results, written |-> written]

\* await db.update_upload_status(upload_id, status, progress)
status_update(db, upload_id, status, progress) ==
    LET ups == update_upload_status(db.uploads, upload_id, status, progress, now) IN
    [db EXCEPT !.uploads = ups, !.written = log_write(db.written, ups, upload_id)]

\* await db.save_processing_results(upload_id, results)
results_saved(db, upload_id, results) ==
    [db EXCEPT !.results = save_processing_results(db.results, upload_id, results)]

\* lines 36-40: the first update, then the reads of the content and the upload
begun(db, upload_id) == status_update(db, upload_id, PROCESSING, 0)

\* lines 61-63: the except branch
failed(db, upload_id) == status_update(db, upload_id, FAILED, 0)

\* finished, with the results never saved
finished_without_results(db, task) ==
    LET db75 == status_update(db, task.upload_id, PROCESSING, 75) IN
    IF analysis_ok(task.file_type, task.file_content)
    THEN status_update(db75, task.upload_id, COMPLETED, 100)
    ELSE failed(db75, task.upload_id)

\* finished, with the loop ending at 50
finished_without_75(db, task) ==
    IF analysis_ok(task.file_type, task.file_content)
    THEN status_update(
             results_saved(db, task.upload_id, analysis_results(task.file_type, now)),
             task.upload_id, COMPLETED, 100)
    ELSE failed(db, task.upload_id)

\* lines 45-63 once the last sleep is over: the update to 75, the analysis, and
\* the results saved and the upload completed, or the except branch
finished(db, task) ==
    LET db75 == status_update(db, task.upload_id, PROCESSING, 75) IN
    IF analysis_ok(task.file_type, task.file_content)
    THEN status_update(
             results_saved(db75, task.upload_id, analysis_results(task.file_type, now)),
             task.upload_id, COMPLETED, 100)
    ELSE failed(db75, task.upload_id)

\* get_results without the ownership check
get_results_unchecked(ups, res, upload_id, customer_id) ==
    get_processing_results(res, upload_id)

\* ProcessingService.get_results
get_results(ups, res, upload_id, customer_id) ==
    IF get_upload(ups, upload_id, customer_id) = NotFound
    THEN <<>>
    ELSE get_processing_results(res, upload_id)

\* the store after a job step
Stored(db) ==
    /\ uploads' = db.uploads
    /\ processing_results' = db.results
    /\ written' = db.written

\* _process_file from the start of the task to the first sleep; db.uploads[upload_id]
\* raises KeyError when the upload is gone, which ends the task in the except branch
process_file_begin(j) ==
    LET task == tasks[j]
        db == begun(TheStore, task.upload_id)
    IN
    /\ task.pc = "created"
    /\ IF task.upload_id \in DOMAIN db.uploads
       THEN /\ Stored(db)
            /\ tasks' = [tasks EXCEPT ![j] =
                   [@ EXCEPT !.pc = "sleep25",
                             !.file_type = db.uploads[task.upload_id].file_type,
                             !.file_content = get_file_content(file_contents, task.upload_id)]]
       ELSE /\ Stored(failed(db, task.upload_id))
            /\ tasks' = [tasks EXCEPT ![j] = [@ EXCEPT !.pc = "done"]]
    /\ UNCHANGED <<file_contents, next_id, now, response>>

\* the loop of lines 43-45: a sleep ends, the progress is written, the next sleep begins
process_file_progress(j) ==
    LET task == tasks[j]
        progress == IF task.pc = "sleep25" THEN 25 ELSE 50
    IN
    /\ task.pc \in {"sleep25", "sleep50"}
    /\ Stored(status_update(TheStore, task.upload_id, PROCESSING, progress))
    /\ tasks' = [tasks EXCEPT ![j] =
           [@ EXCEPT !.pc = IF task.pc = "sleep25" THEN "sleep50" ELSE "sleep75"]]
    /\ UNCHANGED <<file_contents, next_id, now, response>>

\* the end of the task, with an analyzer that never returns on a file it cannot read
process_file_finish_hangs(j) ==
    LET task == tasks[j] IN
    /\ task.pc = "sleep75"
    /\ analysis_ok(task.file_type, task.file_content)
    /\ Stored(finished(TheStore, task))
    /\ tasks' = [tasks EXCEPT ![j] = [@ EXCEPT !.pc = "done"]]
    /\ UNCHANGED <<file_contents, next_id, now, response>>

\* the last sleep ends: lines 45-64 run to the end of the task
process_file_finish(j) ==
    LET task == tasks[j] IN
    /\ task.pc = "sleep75"
    /\ Stored(finished(TheStore, task))
    /\ tasks' = [tasks EXCEPT ![j] = [@ EXCEPT !.pc = "done"]]
    /\ UNCHANGED <<file_contents, next_id, now, response>>

Next ==
    \/ Tick
    \/ \E c \in Customers, f \in Files : create_upload(c, f)
    \/ \E c \in Customers, f \in SubmittedFiles : upload_files(c, f)
    \/ \E id \in Ids, c \in Customers : trigger_processing(id, c)
    \/ \E id \in Ids, c \in Customers : delete_upload(id, c)
    \/ \E j \in DOMAIN tasks : process_file_begin(j)
    \/ \E j \in DOMAIN tasks : process_file_progress(j)
    \/ \E j \in DOMAIN tasks : process_file_finish(j)

Spec == Init /\ [][Next]_vars

\* a step of task j
process_file_step(j) ==
    /\ j \in DOMAIN tasks
    /\ \/ process_file_begin(j)
       \/ process_file_progress(j)
       \/ process_file_finish(j)

\* the requests of one customer, with a file the analyzer accepts and one it
\* raises on
FairCustomers == {"acme"}

FairFiles == {f \in Files : f.content.name \in {"senders.json", "listsender.json"}}

FairNext ==
    \/ Tick
    \/ \E c \in FairCustomers, f \in FairFiles : create_upload(c, f)
    \/ \E c \in FairCustomers, f \in FairFiles : upload_files(c, f)
    \/ \E id \in Ids, c \in FairCustomers : trigger_processing(id, c)
    \/ \E id \in Ids, c \in FairCustomers : delete_upload(id, c)
    \/ \E j \in DOMAIN tasks : process_file_begin(j)
    \/ \E j \in DOMAIN tasks : process_file_progress(j)
    \/ \E j \in DOMAIN tasks : process_file_finish(j)

\* The event loop runs every task that is ready: a task that was created, or
\* whose sleep of one second is over, gets its turn.
FairSpec ==
    /\ Init
    /\ [][FairNext]_vars
    /\ \A j \in 1..MaxJobs : WF_vars(process_file_step(j))

\* ------------------------------------------- a store past the summary's limit
\* one upload more than get_customer_summary lists
ManyUploads == summary_limit + 1

\* the file of every upload of the large store
ManyFile == CHOOSE f \in Files : f.content.name = "senders.json"

\* The store after one customer has submitted ManyUploads files, one after the
\* other, none of their tasks having run yet.
ManyInit ==
    /\ uploads = [id \in 1..ManyUploads |->
                     new_upload(id, "acme", ManyFile.filename, ManyFile.content.len, id)]
    /\ file_contents = [id \in 1..ManyUploads |-> ManyFile.content]
    /\ processing_results = <<>>
    /\ tasks = [id \in 1..ManyUploads |-> new_task(id)]
    /\ next_id = ManyUploads + 1
    /\ now = ManyUploads
    /\ response = [op |-> "create", upload_id |-> ManyUploads, ok |-> TRUE]
    /\ written = [id \in 1..ManyUploads |-> <<<<PENDING, 0>>>>]

\* the first tasks run, and the oldest and the newest upload may be deleted
ManyNext ==
    \/ \E id \in {1, ManyUploads}, c \in Customers : delete_upload(id, c)
    \/ \E j \in 1..MaxJobs : process_file_begin(j)
    \/ \E j \in 1..MaxJobs : process_file_progress(j)
    \/ \E j \in 1..MaxJobs : process_file_finish(j)

ManySpec == ManyInit /\ [][ManyNext]_vars

\* ================================================================ claims
\* the ids handed out so far
Allocated == 1..(next_id - 1)

\* the tasks launched for an upload
TasksOf(id) == {j \in DOMAIN tasks : tasks[j].upload_id = id}

\* C1: every stored upload has a status among the four, a progress in 0..100,
\* and is completed exactly when its progress is 100
C1_StatusAndProgress ==
    \A id \in DOMAIN uploads :
        /\ uploads[id].status \in UploadStatus
        /\ uploads[id].progress \in 0..100
        /\ uploads[id].status = COMPLETED <=> uploads[id].progress = 100

\* C1 witness: an upload that was completed is processing again at progress 50
C1_Witness ==
    \E id \in DOMAIN uploads :
        /\ uploads[id].processing_completed_at # None
        /\ uploads[id].status = PROCESSING
        /\ uploads[id].progress = 50

\* C2: once an upload is completed or failed, no step changes its status
C2_TerminalIsFinal ==
    [][\A id \in DOMAIN uploads \cap DOMAIN uploads' :
          uploads[id].status \in {COMPLETED, FAILED}
              => uploads'[id].status = uploads[id].status]_vars

\* C3: an id whose upload was deleted has no entry in the uploads, the file
\* contents or the results, whatever steps its job takes afterwards
C3_LateWritesAreNoOps ==
    \A id \in Allocated \ DOMAIN uploads :
        /\ id \notin DOMAIN file_contents
        /\ id \notin DOMAIN processing_results

\* C4: a completed upload has at least one stored result; right after a job's
\* last step succeeds on a stored upload, get_upload shows completed at 100 and
\* get_results returns at least one result
C4_CompletedHasResults ==
    [][/\ \A id \in DOMAIN uploads' :
              uploads'[id].status = COMPLETED
                  => Len(get_processing_results(processing_results', id)) >= 1
       /\ \A j \in DOMAIN tasks :
              LET id == tasks[j].upload_id IN
              (/\ tasks[j].pc = "sleep75"
               /\ tasks'[j].pc = "done"
               /\ id \in DOMAIN uploads
               /\ analysis_ok(uploads[id].file_type, file_contents[id]))
                  => LET c == uploads[id].customer_id IN
                     /\ get_upload(uploads', id, c).status = COMPLETED
                     /\ get_upload(uploads', id, c).progress = 100
                     /\ Len(get_results(uploads', processing_results', id, c)) >= 1]_vars

\* C4 witness: a job has finished and left its upload completed with results
C4_Witness ==
    \E j \in DOMAIN tasks :
        /\ tasks[j].pc = "done"
        /\ tasks[j].upload_id \in DOMAIN uploads
        /\ uploads[tasks[j].upload_id].status = COMPLETED
        /\ Len(get_processing_results(processing_results, tasks[j].upload_id)) = 2

\* C5: trigger_processing on an id that is not stored, or is stored under
\* another customer, answers false, launches no task and changes nothing stored
C5_TriggerNotOwned ==
    [][\A id \in Ids, c \in Customers :
          (/\ trigger_processing(id, c)
           /\ ~(id \in DOMAIN uploads /\ uploads[id].customer_id = c))
              => /\ response' = [op |-> "trigger", upload_id |-> id, ok |-> FALSE]
                 /\ tasks' = tasks
                 /\ UNCHANGED <<uploads, file_contents, processing_results>>]_vars

\* C5 witness: the last request was a refused trigger on a stored upload, so one
\* made by a customer who does not own it
C5_Witness ==
    /\ response.op = "trigger"
    /\ ~response.ok
    /\ response.upload_id \in DOMAIN uploads
    /\ \E j \in DOMAIN tasks : tasks[j].pc = "sleep50"

\* the arguments list_uploads is asked with
ListSkips == {0, 1}
ListLimits == {1, 100}
ListStatuses == {""} \cup UploadStatus

\* what every reader sees of an id that is gone
Gone(ups, res, id) ==
    \A c \in Customers :
        /\ get_upload(ups, id, c) = NotFound
        /\ get_results(ups, res, id, c) = <<>>
        /\ \A skip \in ListSkips, limit \in ListLimits, status \in ListStatuses :
               LET listed == list_uploads(ups, c, skip, limit, status)
               IN \A k \in DOMAIN listed : listed[k].id # id

\* C6: once delete_upload has succeeded on an id, the id stays out of the
\* store, and in every later state no listing contains it, get_upload does not
\* find it and get_results returns the empty sequence, for every customer
C6_DeletedIsGone ==
    /\ [](\A id \in Allocated \ DOMAIN uploads :
             Gone(uploads, processing_results, id))
    /\ [][\A id \in Ids :
             (\/ id \in Allocated \ DOMAIN uploads
              \/ \E c \in Customers :
                    delete_found(uploads, id, c) /\ delete_upload(id, c))
                 => id \in Allocated' \ DOMAIN uploads']_vars

\* C6 witness: a job that outlived its deleted upload has saved results for it
C6_Witness ==
    \E id \in Allocated \ DOMAIN uploads :
        /\ id \in DOMAIN processing_results
        /\ DOMAIN uploads # {}

\* whether the analyzer chosen for a stored upload returns
AnalyzerSucceeds(id) ==
    \/ uploads[id].file_type = "json" /\ json_file_ok(file_contents[id])
    \/ uploads[id].file_type = "csv" /\ csv_file_ok(file_contents[id])

\* the values the claim lists for an upload
ExpectedWrites(id) ==
    <<<<PENDING, 0>>, <<PROCESSING, 0>>, <<PROCESSING, 25>>, <<PROCESSING, 50>>,
      <<PROCESSING, 75>>,
      IF AnalyzerSucceeds(id) THEN <<COMPLETED, 100>> ELSE <<FAILED, 0>>>>

\* the values written once a task has come to a point of its code
WritesAt(pc) ==
    CASE pc = "created" -> 1
      [] pc = "sleep25" -> 2
      [] pc = "sleep50" -> 3
      [] pc = "sleep75" -> 4
      [] pc = "done" -> 6

\* the stored uploads triggered exactly once
TriggeredOnce == {id \in DOMAIN uploads : Cardinality(TasksOf(id)) = 1}

\* C7 as amended: for a stored upload triggered exactly once, the values
\* written are the listed ones in the listed order, as far as its job has come;
\* up to (processing,50) each value is written by a step of its own, between
\* which requests are served, and the job's last step writes (processing,75)
\* and the terminal value together, so no request is served between these two
C7_WritesInOrder ==
    \A id \in TriggeredOnce :
        LET j == CHOOSE k \in TasksOf(id) : TRUE IN
        /\ written[id] = SubSeq(ExpectedWrites(id), 1, WritesAt(tasks[j].pc))
        /\ <<uploads[id].status, uploads[id].progress>> = written[id][Len(written[id])]
        /\ tasks[j].pc \in {"created", "sleep25", "sleep50"}
               => ENABLED (/\ Next
                           /\ id \in DOMAIN written'
                           /\ Len(written'[id]) = Len(written[id]) + 1)

\* C7 witness: two uploads triggered once whose jobs are done, one completed
\* and one failed
C7_Witness ==
    \E a \in TriggeredOnce, b \in TriggeredOnce :
        /\ Len(written[a]) = 6 /\ uploads[a].status = COMPLETED
        /\ Len(written[b]) = 6 /\ uploads[b].status = FAILED

\* C7 as claimed: the listed values in the listed order, and between any two
\* of them a state in which a request can be served, so that after
\* (processing,50) a step leads to a state whose last written value is
\* (processing,75)
C7_AsClaimed ==
    \A id \in TriggeredOnce :
        LET j == CHOOSE k \in TasksOf(id) : TRUE IN
        /\ Len(written[id]) <= 6
        /\ written[id] = SubSeq(ExpectedWrites(id), 1, Len(written[id]))
        /\ tasks[j].pc = "sleep75" => ENABLED (Next /\ id \in DOMAIN written' /\ Len(written'[id]) = 5)

\* C8: the last step of a job whose upload is stored with a file_type other
\* than json or csv, or with content its analyzer cannot parse, leaves the
\* upload failed at progress 0, saves no results and reaches no caller; and
\* such an upload is never completed and never has results
C8_FailedJob ==
    [][/\ \A id \in DOMAIN uploads' :
              ~AnalyzerSucceeds(id)'
                  => /\ uploads'[id].status # COMPLETED
                     /\ id \notin DOMAIN processing_results'
       /\ \A j \in DOMAIN tasks :
              LET id == tasks[j].upload_id IN
              (/\ tasks[j].pc = "sleep75"
               /\ tasks'[j].pc = "done"
               /\ id \in DOMAIN uploads
               /\ ~AnalyzerSucceeds(id))
                  => /\ uploads'[id].status = FAILED
                     /\ uploads'[id].progress = 0
                     /\ written'[id] = written[id] \o <<<<PROCESSING, 75>>, <<FAILED, 0>>>>
                     /\ processing_results' = processing_results
                     /\ response' = response]_vars

\* C8 witness: two uploads failed by their jobs after a trigger that answered
\* true, one of an unsupported type and one whose json content the analyzer
\* rejects
C8_Witness ==
    \E a \in DOMAIN uploads, b \in DOMAIN uploads :
        /\ uploads[a].file_type = "txt" /\ uploads[a].status = FAILED
        /\ uploads[b].file_type = "json" /\ uploads[b].status = FAILED
        /\ \A j \in DOMAIN tasks : tasks[j].pc = "done"
        /\ response.ok

\* C9: processing_started_at is unset as long as no processing value has been
\* written to the upload, it is set to the current time by the step that
\* writes the first one, and no later step changes it
C9_StartedAtSetOnce ==
    [][\A id \in DOMAIN uploads' :
          LET before == IF id \in DOMAIN uploads
                        THEN uploads[id].processing_started_at ELSE None
              after == uploads'[id].processing_started_at
          IN
          /\ before # None => after = before
          /\ after = None <=> \A k \in DOMAIN written'[id] : written'[id][k][1] # PROCESSING
          /\ (before = None /\ after # None) => after = now]_vars

\* C9 witness: a second job for an upload has made its first update at a later
\* time than the one processing_started_at holds
C9_Witness ==
    \E id \in DOMAIN uploads :
        /\ uploads[id].processing_started_at # None
        /\ uploads[id].processing_started_at < now
        /\ Len(SelectSeq(written[id], LAMBDA w : w = <<PROCESSING, 0>>)) = 2
        /\ written[id][Len(written[id])] = <<PROCESSING, 0>>

\* C10: processing_completed_at is unset until the upload is first completed,
\* and once set no step changes it
C10_CompletedAtSetOnce ==
    [][\A id \in DOMAIN uploads' :
          LET before == IF id \in DOMAIN uploads
                        THEN uploads[id].processing_completed_at ELSE None
              after == uploads'[id].processing_completed_at
          IN
          /\ before # None => after = before
          /\ after = None <=> \A k \in DOMAIN written'[id] : written'[id][k][1] # COMPLETED]_vars

\* C11: trigger_processing on an owned upload answers true and leaves the store
\* as it is, with the new task not yet run; UploadService.create_upload returns
\* with the new upload pending at progress 0 and its task not yet run; and a
\* task that has not run has written nothing
C11_TriggerDoesNotBlock ==
    [][/\ \A id \in Ids, c \in Customers :
              (/\ trigger_processing(id, c)
               /\ id \in DOMAIN uploads
               /\ uploads[id].customer_id = c)
                  => /\ response' = [op |-> "trigger", upload_id |-> id, ok |-> TRUE]
                     /\ tasks' = Append(tasks, new_task(id))
                     /\ UNCHANGED <<uploads, file_contents, processing_results, written>>
       /\ next_id' # next_id
              => /\ response' = [op |-> "create", upload_id |-> next_id, ok |-> TRUE]
                 /\ uploads'[next_id].status = PENDING
                 /\ uploads'[next_id].progress = 0
                 /\ uploads'[next_id].processing_started_at = None
                 /\ written'[next_id] = <<<<PENDING, 0>>>>
                 /\ tasks' = Append(tasks, new_task(next_id))
                 /\ processing_results' = processing_results
       /\ \A id \in DOMAIN uploads' :
              (\A j \in DOMAIN tasks' : tasks'[j].upload_id = id => tasks'[j].pc = "created")
                  => written'[id] = <<<<PENDING, 0>>>>]_vars

\* C11 witness: a trigger has answered true on an upload that is still pending,
\* neither the task of its creation nor the new one having run
C11_Witness ==
    /\ response = [op |-> "trigger", upload_id |-> 1, ok |-> TRUE]
    /\ 1 \in DOMAIN uploads
    /\ uploads[1].status = PENDING
    /\ Len(tasks) = 2
    /\ \A j \in DOMAIN tasks : tasks[j].upload_id = 1 /\ tasks[j].pc = "created"

\* C12: a task that has not ended always has its next step to take; under fair
\* scheduling every launched task comes to its end, and every stored upload is
\* eventually completed or failed unless it is deleted
C12_JobsEnd ==
    /\ [](\A j \in DOMAIN tasks : tasks[j].pc # "done" => ENABLED process_file_step(j))
    /\ \A j \in 1..MaxJobs :
           [](j \in DOMAIN tasks => <>(j \in DOMAIN tasks /\ tasks[j].pc = "done"))
    /\ \A id \in Ids :
           [](id \in DOMAIN uploads
                 => <>(\/ id \notin DOMAIN uploads
                       \/ uploads[id].status \in {COMPLETED, FAILED}))

\* C12 witness: every launched task is done, two of them for the same upload,
\* which is failed
C12_Witness ==
    /\ Len(tasks) = 2
    /\ \A j \in DOMAIN tasks : tasks[j].pc = "done" /\ tasks[j].upload_id = 1
    /\ 1 \in DOMAIN uploads
    /\ uploads[1].status = FAILED

\* the skip and limit values of a list request: the endpoint takes any integer
PageSkips == {-1, 0, 1}
PageLimits == {-1, 0, 1, 2}

\* the customer's stored uploads (of the status, when one is given), newest first
Listing(customer_id, status) ==
    LET matches(u) == u.customer_id = customer_id /\ (status = "" \/ u.status = status)
    IN sorted_newest_first(SelectSeq(values_of(uploads, DOMAIN uploads), matches))

\* the elements of seq at the positions skip .. skip+limit-1, counted from 0
Positions(seq, skip, limit) ==
    LET lo == IF skip < 0 THEN 0 ELSE skip
        hi == IF skip + limit > Len(seq) THEN Len(seq) ELSE skip + limit
    IN [k \in 1..(IF hi > lo THEN hi - lo ELSE 0) |-> seq[lo + k]]

\* C13: list_uploads returns the elements at the positions skip .. skip+limit-1
\* of the customer's uploads, filtered by status and newest first: no upload of
\* another customer, never more than limit entries
C13_Paginated ==
    \A c \in Customers, skip \in PageSkips, limit \in PageLimits, status \in ListStatuses :
        LET got == list_uploads(uploads, c, skip, limit, status) IN
        /\ got = Positions(Listing(c, status), skip, limit)
        /\ Len(got) <= (IF limit < 0 THEN 0 ELSE limit)
        /\ \A i \in DOMAIN got : got[i].customer_id = c

\* the customer's stored uploads, of the status when one is given
StoredOf(customer_id, status) ==
    {id \in DOMAIN uploads : /\ uploads[id].customer_id = customer_id
                             /\ status = "" \/ uploads[id].status = status}

\* the sum of the file sizes of the uploads of ids with an id in lo..hi
RECURSIVE SizeBetween(_, _, _)
SizeBetween(ids, lo, hi) ==
    IF lo > hi THEN 0
    ELSE IF lo = hi THEN (IF lo \in ids THEN uploads[lo].file_size ELSE 0)
    ELSE LET mid == (lo + hi) \div 2
         IN SizeBetween(ids, lo, mid) + SizeBetween(ids, mid + 1, hi)

SizeOf(ids) == SizeBetween(ids, 1, next_id - 1)

\* C14: in every store, of any size, the summary of a customer counts all of
\* the customer's uploads, those pending, completed and failed, and the sum of
\* their file sizes
C14_SummaryCounts ==
    \A c \in Customers :
        LET summary == get_customer_summary(uploads, c) IN
        /\ summary.total_uploads = Cardinality(StoredOf(c, ""))
        /\ summary.pending_uploads = Cardinality(StoredOf(c, PENDING))
        /\ summary.completed_uploads = Cardinality(StoredOf(c, COMPLETED))
        /\ summary.failed_uploads = Cardinality(StoredOf(c, FAILED))
        /\ summary.total_files_size = SizeOf(StoredOf(c, ""))

\* the file fails the extension check, the size limit or the format validation
FailsExtension(f) == f.filename[Len(f.filename)] \notin {"json", "csv"}
FailsSize(f) == f.content.len > max_file_size
FailsFormat(f) ==
    \/ f.filename[Len(f.filename)] = "json"
          /\ (~f.content.utf8 \/ f.content.json \notin {"object", "array"})
    \/ f.filename[Len(f.filename)] = "csv" /\ (~f.content.utf8 \/ ~f.content.csv)

\* the answer to a rejected file
Rejection == [op |-> "upload", upload_id |-> None, ok |-> FALSE]

\* C15: a submitted file that fails the extension check, the size limit or the
\* format validation is answered with a rejection in the step that submits it,
\* and that step creates no upload, no content and no task, and hands out no id
C15_RejectedCreatesNothing ==
    [][\A c \in Customers, f \in SubmittedFiles :
           ((FailsExtension(f) \/ FailsSize(f) \/ FailsFormat(f)) /\ upload_files(c, f))
               => /\ response' = Rejection
                  /\ UNCHANGED <<uploads, file_contents, processing_results, tasks,
                                 next_id, written>>]_vars

\* C15 witness: a file has been rejected after one upload was created, and the
\* store holds that one upload only
C15_Witness ==
    /\ response = Rejection
    /\ next_id = 2
    /\ DOMAIN uploads = {1}
    /\ DOMAIN file_contents = {1}
    /\ Len(tasks) = 1

\* C16: for an id stored under another customer, get_upload, get_results,
\* delete_upload and trigger_processing give the caller what they give on the
\* store without that id (not found, empty, false, false), and a delete or
\* trigger step on an id the caller does not own, stored or not, answers false
\* and leaves the store and the tasks as they are
C16_TenantsIndistinguishable ==
    /\ [](\A id \in DOMAIN uploads, c \in Customers :
             c # uploads[id].customer_id =>
                 LET absent == without(uploads, id)
                     absent_results == without(processing_results, id)
                 IN /\ get_upload(uploads, id, c) = NotFound
                    /\ get_upload(absent, id, c) = NotFound
                    /\ get_results(uploads, processing_results, id, c) = <<>>
                    /\ get_results(absent, absent_results, id, c) = <<>>
                    /\ ~delete_found(uploads, id, c)
                    /\ ~delete_found(absent, id, c)
                    /\ ~trigger_found(uploads, id, c)
                    /\ ~trigger_found(absent, id, c))
    /\ [][\A id \in Ids, c \in Customers :
             ~(id \in DOMAIN uploads /\ uploads[id].customer_id = c) =>
                 /\ trigger_processing(id, c) =>
                        /\ response' = [op |-> "trigger", upload_id |-> id, ok |-> FALSE]
                        /\ UNCHANGED <<uploads, file_contents, processing_results, tasks,
                                       written, next_id>>
                 /\ delete_upload(id, c) =>
                        /\ response' = [op |-> "delete", upload_id |-> id, ok |-> FALSE]
                        /\ UNCHANGED <<uploads, file_contents, processing_results, tasks,
                                       written, next_id>>]_vars

\* C16 witness: a delete was refused on an upload that is stored and completed,
\* so one asked by a customer who does not own it
C16_Witness ==
    /\ response = [op |-> "delete", upload_id |-> 1, ok |-> FALSE]
    /\ 1 \in DOMAIN uploads
    /\ uploads[1].status = COMPLETED
    /\ 1 \in DOMAIN processing_results

\* C17: the ids that hold content are the ids of the stored uploads, and no
\* step changes the content, customer_id, filename, file_type, file_size or
\* upload_timestamp of an upload that stays stored
C17_ContentOneToOne ==
    /\ [](DOMAIN file_contents = DOMAIN uploads)
    /\ [][\A id \in DOMAIN uploads \cap DOMAIN uploads' :
             /\ file_contents'[id] = file_contents[id]
             /\ uploads'[id].id = uploads[id].id
             /\ uploads'[id].customer_id = uploads[id].customer_id
             /\ uploads'[id].filename = uploads[id].filename
             /\ uploads'[id].file_type = uploads[id].file_type
             /\ uploads'[id].file_size = uploads[id].file_size
             /\ uploads'[id].upload_timestamp = uploads[id].upload_timestamp]_vars

\* C17 witness: one upload has been deleted and the other, stored after the
\* clock moved on, has been processed to its end
C17_Witness ==
    /\ next_id = 3
    /\ DOMAIN uploads = {2}
    /\ DOMAIN file_contents = {2}
    /\ uploads[2].status = COMPLETED
    /\ uploads[2].upload_timestamp < uploads[2].processing_completed_at

\* the fields of an upload that a job has no business with
Identity(u) ==
    <<u.id, u.customer_id, u.filename, u.file_type, u.file_size, u.upload_timestamp>>

\* C18: a step of the task for upload X leaves the contents, every other
\* upload, every other upload's results, every other task and X's identity
\* fields as they are; and whatever point the other tasks stand at, a task
\* that has not ended can take its step, a delete can be served, and a trigger
\* can be served as long as tasks can be launched
C18_JobsAreIsolated ==
    /\ [][\A j \in DOMAIN tasks :
             process_file_step(j) =>
                 LET x == tasks[j].upload_id IN
                 /\ file_contents' = file_contents
                 /\ DOMAIN uploads' = DOMAIN uploads
                 /\ \A id \in DOMAIN uploads \ {x} : uploads'[id] = uploads[id]
                 /\ x \in DOMAIN uploads => Identity(uploads'[x]) = Identity(uploads[x])
                 /\ DOMAIN processing_results \subseteq DOMAIN processing_results'
                 /\ DOMAIN processing_results' \subseteq DOMAIN processing_results \cup {x}
                 /\ \A id \in DOMAIN processing_results \ {x} :
                        processing_results'[id] = processing_results[id]
                 /\ \A k \in DOMAIN tasks \ {j} : tasks'[k] = tasks[k]
                 /\ UNCHANGED <<next_id, response>>]_vars
    /\ [](/\ \A k \in DOMAIN tasks :
                 tasks[k].pc # "done" => ENABLED process_file_step(k)
           /\ \A id \in Ids, c \in Customers :
                 /\ ENABLED delete_upload(id, c)
                 /\ Len(tasks) < MaxJobs => ENABLED trigger_processing(id, c))

\* C18 witness: the task of one upload stands at its first sleep while the task
\* of another upload, launched after it, has run to its end
C18_Witness ==
    /\ Len(tasks) = 2
    /\ tasks[1].upload_id # tasks[2].upload_id
    /\ tasks[1].pc = "sleep25"
    /\ tasks[2].pc = "done"
    /\ DOMAIN uploads = {1, 2}
    /\ uploads[tasks[1].upload_id].progress = 0
    /\ uploads[tasks[2].upload_id].status = COMPLETED

\* C19: while an upload stays in processing its progress never decreases,
\* however many tasks have been triggered for it
C19_ProgressNeverDecreases ==
    [][\A id \in DOMAIN uploads \cap DOMAIN uploads' :
           (uploads[id].status = PROCESSING /\ uploads'[id].status = PROCESSING)
               => uploads'[id].progress >= uploads[id].progress]_vars

\* C20: a stored upload is pending exactly when its processing_started_at is
\* unset, and a completed upload has processing_completed_at set as well
C20_PendingIffNotStarted ==
    \A id \in DOMAIN uploads :
        /\ uploads[id].status = PENDING <=> uploads[id].processing_started_at = None
        /\ uploads[id].status = COMPLETED =>
               /\ uploads[id].processing_started_at # None
               /\ uploads[id].processing_completed_at # None

\* C20 witness: one upload has failed, with its start set and no completion,
\* and the other is completed
C20_Witness ==
    /\ DOMAIN uploads = {1, 2}
    /\ uploads[1].status = FAILED
    /\ uploads[1].processing_started_at # None
    /\ uploads[1].processing_completed_at = None
    /\ uploads[2].status = COMPLETED
    /\ uploads[2].processing_started_at # None

\* the (status, progress) values written so far to a stored upload
Written(id) == {written[id][k] : k \in DOMAIN written[id]}

\* C21: a stored upload that is failed has processing_completed_at unset and no
\* results, however often it was triggered; and no stored upload has been
\* completed by one task and failed by another
C21_FailedNeverCompleted ==
    \A id \in DOMAIN uploads :
        /\ uploads[id].status = FAILED =>
               /\ uploads[id].processing_completed_at = None
               /\ id \notin DOMAIN processing_results
               /\ get_processing_results(processing_results, id) = <<>>
        /\ ~(<<COMPLETED, 100>> \in Written(id) /\ <<FAILED, 0>> \in Written(id))

\* C21 witness: an upload triggered a second time has been failed by both of
\* its tasks
C21_Witness ==
    \E id \in DOMAIN uploads :
        /\ uploads[id].status = FAILED
        /\ Cardinality(TasksOf(id)) = 2
        /\ \A j \in TasksOf(id) : tasks[j].pc = "done"
        /\ Cardinality({k \in DOMAIN written[id] : written[id][k] = <<FAILED, 0>>}) = 2

====
